---- MODULE Spec2Model ----
(***************************************************************************)
(* Model of the orchestration engine of ai-orchestration: the dependency   *)
(* resolvers (DirectorAI._determine_execution_order and                    *)
(* TaskExecutionLoop._calculate_execution_order), the backend retry loop   *)
(* (AgnoClient.run_query behind LLMManager and WorkerAI.execute_task), the *)
(* Session status mutators, the CommandDispatcher with its two commands,   *)
(* and DirectorAI.execute_process.                                         *)
(*                                                                         *)
(* Subtask ids are opaque strings in the source; they are the naturals     *)
(* 1..MaxSubtasks here.  Names are resolved to the definitions the source  *)
(* text evidently means (ai_types is types.py).                            *)
(***************************************************************************)
EXTENDS Integers, Sequences, FiniteSets, TLC

\* ------------------------------------------------------------------ bounds
\* number of subtask ids in play
MaxSubtasks == 3
\* total number of dependency edges of a dependency map
MaxEdges == 3

Ids == 1..MaxSubtasks

\* ------------------------------------------------------------- variables
VARIABLES
    \* --- dependency resolvers
    subtasks,          \* the list of subtask ids handed to the resolver
    dependencies,      \* id -> list of ids it depends on
    directorOrder,     \* outcome of DirectorAI._determine_execution_order
    loopOrder,         \* outcome of TaskExecutionLoop._calculate_execution_order
    loopRun,           \* TaskExecutionLoop: state, execution_results, what run returned
    rpc,               \* which resolver has run
    \* --- one WorkerAI.execute_task and the AgnoClient.run_query calls in it
    wpc,               \* position of the worker coroutine
    phase,             \* which generate_with_template call is running
    hasRequirements,   \* task.requirements is not empty
    setup_complete,    \* AgnoClient.setup_complete
    attempt,           \* run_query: the loop variable
    retry_delay,       \* run_query: seconds to wait before the next attempt
    sleeps,            \* run_query: the waits made by this call, in order
    outcomes,          \* run_query: how each attempt of this call ended
    runLog,            \* the finished run_query calls of this execution
    wStatus,           \* task.status
    resultContent,     \* worker: result_content, the text generation returned
    execResult,        \* the TaskExecutionResult returned by the worker
    \* --- a Session with its CommandDispatcher and its worker component
    cpc,               \* "idle" or "ready": whether this session is in play
    sessSubtasks,      \* Session.subtasks: id -> status, for the registered ids
    hasPlanner,        \* Session.components has a planner
    hasWorker,         \* Session.components has a worker
    last,              \* what the last call was and what it returned
    \* --- DirectorAI driving one process on a Session
    dpc,               \* where the Director is: "off", "ready", an awaited call, "replied"
    sessionStatus,     \* Session.status
    hasEvaluator,      \* Session.components has an evaluator
    dSender,           \* the sender of the command being processed
    plan_result,       \* the plan in use: subtasks and dependencies
    execution_order,   \* the list returned by _determine_execution_order
    dIdx,              \* position in execution_order of the subtask in hand
    execution_results, \* the results collected so far, in execution order
    execLog,           \* the ids the worker was invoked on, in invocation order
    evalLog,           \* the evaluations that returned, in order, with their verdict
    \* --- Task objects and the calls of their update_status
    tasks,             \* id -> the Task's status and whether completed_at is set
    \* --- one TaskDecompositionLoop, its run() and the apply_feedback calls
    dcState,           \* TaskDecompositionLoop.state
    iteration_count,   \* TaskDecompositionLoop.iteration_count
    feedback_history,  \* the feedback types applied, in order
    dcSubtasks,        \* the number of subtasks of the loop
    dcpc,              \* where run() is: "idle", "while", "decompose", "review", "limit"
    runEntry,          \* the state the loop was in when run() was called
    feedbackInRun,     \* apply_feedback was called while this run() was executing
    dcReturned         \* what the last run() returned

resolverVars == <<subtasks, dependencies, directorOrder, loopOrder, loopRun, rpc>>

retryVars == <<wpc, phase, hasRequirements, setup_complete, attempt, retry_delay,
               sleeps, outcomes, runLog, wStatus, resultContent,
               execResult>>

commandVars == <<cpc, sessSubtasks, hasPlanner, hasWorker, last>>

directorVars == <<dpc, sessionStatus, hasEvaluator, dSender, plan_result,
                  execution_order, dIdx, execution_results, execLog, evalLog>>

taskVars == <<tasks>>

decompVars == <<dcState, iteration_count, feedback_history, dcSubtasks, dcpc,
               runEntry, feedbackInRun, dcReturned>>

vars == <<resolverVars, retryVars, commandVars, directorVars, taskVars, decompVars>>

\* ------------------------------------------------------------- sequences
Range(s) == {s[i] : i \in DOMAIN s}

Reverse(s) == [i \in 1..Len(s) |-> s[Len(s) + 1 - i]]

\* position of x in s, 0 when absent
IndexOf(s, x) == IF x \in Range(s) THEN CHOOSE i \in DOMAIN s : s[i] = x ELSE 0

\* the elements of set S as a list in the order of the list prio
RECURSIVE ListBy(_, _)
ListBy(S, prio) ==
    IF prio = <<>> THEN <<>>
    ELSE IF Head(prio) \in S THEN <<Head(prio)>> \o ListBy(S, Tail(prio))
    ELSE ListBy(S, Tail(prio))

Perms(S) == {p \in [1..Cardinality(S) -> S] : Range(p) = S}

\* ------------------------------------------------ dependency resolvers
NoOrder == [raised |-> FALSE, node |-> 0, order |-> <<>>]

\* dict.get(node, []) on the dependency graph
GraphGet(graph, node) == IF node \in DOMAIN graph THEN graph[node] ELSE <<>>

EmptyMarks == [visited |-> {}, temp_mark |-> {}, order |-> <<>>,
               raised |-> FALSE, node |-> 0]

RECURSIVE visit(_, _, _), visitDeps(_, _, _), loopVisit(_, _, _), loopVisitDeps(_, _, _)

\* a visit that does not look at temp_mark: a node in progress is taken as new
visitNoCycleCheck(graph, node, st) ==
    IF st.raised \/ node \in st.temp_mark THEN st
    ELSE IF node \notin st.visited THEN
        LET s1 == [st EXCEPT !.temp_mark = @ \cup {node}]
            s2 == visitDeps(graph, GraphGet(graph, node), s1)
        IN  [s2 EXCEPT !.temp_mark = @ \ {node},
                       !.visited = @ \cup {node},
                       !.order = Append(@, node)]
    ELSE st

\* director.py visit(node): raise on a node in progress, else visit the
\* dependencies first and append the node after them.  A raised exception
\* unwinds every enclosing call.
visit(graph, node, st) ==
    IF st.raised THEN st
    ELSE IF node \in st.temp_mark THEN [st EXCEPT !.raised = TRUE, !.node = node]
    ELSE IF node \notin st.visited THEN
        LET s1 == [st EXCEPT !.temp_mark = @ \cup {node}]
            s2 == visitDeps(graph, GraphGet(graph, node), s1)
        IN  IF s2.raised THEN s2
            ELSE [s2 EXCEPT !.temp_mark = @ \ {node},
                            !.visited = @ \cup {node},
                            !.order = Append(@, node)]
    ELSE st

\* director.py: for dep in dependency_graph.get(node, []): visit(dep)
visitDeps(graph, deps, st) ==
    IF deps = <<>> \/ st.raised THEN st
    ELSE visitDeps(graph, Tail(deps), visit(graph, Head(deps), st))

\* director.py: for subtask in subtasks: if id not in visited: visit(id)
RECURSIVE visitRoots(_, _, _)
visitRoots(graph, roots, st) ==
    IF roots = <<>> \/ st.raised THEN st
    ELSE IF Head(roots) \notin st.visited
         THEN visitRoots(graph, Tail(roots), visit(graph, Head(roots), st))
         ELSE visitRoots(graph, Tail(roots), st)

\* director.py: dependency_graph[id] = dependencies.get(id, []) for the subtasks
dependency_graph(sts, deps) == [id \in Range(sts) |-> GraphGet(deps, id)]

\* a resolver that returns every id it visited, subtask or not
determine_execution_order_unfiltered(sts, deps) ==
    LET st == visitRoots(dependency_graph(sts, deps), sts, EmptyMarks)
    IN  IF st.raised THEN [raised |-> TRUE, node |-> st.node, order |-> <<>>]
        ELSE [raised |-> FALSE, node |-> 0, order |-> Reverse(st.order)]

\* a resolver whose error names the subtask the traversal started from
determine_execution_order_naming_first(sts, deps) ==
    LET st == visitRoots(dependency_graph(sts, deps), sts, EmptyMarks)
        ordered_subtasks == SelectSeq(st.order, LAMBDA id : id \in Range(sts))
    IN  IF st.raised THEN [raised |-> TRUE, node |-> Head(sts), order |-> <<>>]
        ELSE [raised |-> FALSE, node |-> 0, order |-> Reverse(ordered_subtasks)]

\* DirectorAI._determine_execution_order: the subtasks in visiting order,
\* reversed (list(reversed(ordered_subtasks)))
determine_execution_order(sts, deps) ==
    LET st == visitRoots(dependency_graph(sts, deps), sts, EmptyMarks)
        ordered_subtasks == SelectSeq(st.order, LAMBDA id : id \in Range(sts))
    IN  IF st.raised THEN [raised |-> TRUE, node |-> st.node, order |-> <<>>]
        ELSE [raised |-> FALSE, node |-> 0, order |-> Reverse(ordered_subtasks)]

\* execution.py visit(node)
loopVisit(graph, node, st) ==
    IF st.raised THEN st
    ELSE IF node \in st.temp_mark THEN [st EXCEPT !.raised = TRUE, !.node = node]
    ELSE IF node \in st.visited THEN st
    ELSE
        LET s1 == [st EXCEPT !.temp_mark = @ \cup {node}]
            s2 == loopVisitDeps(graph, GraphGet(graph, node), s1)
        IN  IF s2.raised THEN s2
            ELSE [s2 EXCEPT !.temp_mark = @ \ {node},
                            !.visited = @ \cup {node},
                            !.order = Append(@, node)]

\* execution.py: for neighbor in self.dependency_graph.get(node, set())
loopVisitDeps(graph, deps, st) ==
    IF deps = <<>> \/ st.raised THEN st
    ELSE loopVisitDeps(graph, Tail(deps), loopVisit(graph, Head(deps), st))

RECURSIVE loopVisitRoots(_, _, _)
loopVisitRoots(graph, roots, st) ==
    IF roots = <<>> \/ st.raised THEN st
    ELSE IF Head(roots) \notin st.visited
         THEN loopVisitRoots(graph, Tail(roots), loopVisit(graph, Head(roots), st))
         ELSE loopVisitRoots(graph, Tail(roots), st)

\* TaskExecutionLoop._build_dependency_graph: only tasks with a dependency
\* get a key (defaultdict)
build_dependency_graph(sts, deps) ==
    [id \in {t \in Range(sts) : GraphGet(deps, t) # <<>>} |-> deps[id]]

\* TaskExecutionLoop._calculate_execution_order: list(reversed(order))
calculate_execution_order(sts, deps) ==
    LET st == loopVisitRoots(build_dependency_graph(sts, deps), sts, EmptyMarks)
    IN  IF st.raised THEN [raised |-> TRUE, node |-> st.node, order |-> <<>>]
        ELSE [raised |-> FALSE, node |-> 0, order |-> Reverse(st.order)]

\* a TaskExecutionLoop that was not constructed or has not run
NoRun == [state |-> "none", execution_results |-> <<>>, returned |-> "none"]

\* TaskExecutionLoop._check_dependencies_met(task_id)
check_dependencies_met(graph, results, task_id) ==
    \A dep \in Range(GraphGet(graph, task_id)) :
        dep \in DOMAIN results /\ results[dep] = "success"

\* TaskExecutionLoop.execute_task(task_id): the status of its result
execute_task(task_id) == "success"

\* the for loop of TaskExecutionLoop.run over the rest of execution_order
RECURSIVE run_loop(_, _, _)
run_loop(graph, order, lp) ==
    IF order = <<>>
    THEN [lp EXCEPT !.state = "completed", !.returned = "True"]
    ELSE IF ~check_dependencies_met(graph, lp.execution_results, Head(order))
    THEN run_loop(graph, Tail(order), lp)
    ELSE LET status == execute_task(Head(order))
             results == [id \in DOMAIN lp.execution_results \cup {Head(order)} |->
                            IF id = Head(order) THEN status
                            ELSE lp.execution_results[id]]
         IN  IF status = "failure"
             THEN [state |-> "failed", execution_results |-> results,
                   returned |-> "False"]
             ELSE run_loop(graph, Tail(order),
                           [lp EXCEPT !.state = "executing",
                                      !.execution_results = results])

\* ---- inputs of the resolvers
\* the subtask lists <<1, .., n>> (ids are opaque: the list order is the
\* naming), with at most one id beyond n that is no subtask
KnownIds(n) == 1..(IF n < MaxSubtasks THEN n + 1 ELSE n)

EdgeSets(n) ==
    {E \in SUBSET ((1..n) \X KnownIds(n)) : Cardinality(E) <= MaxEdges}

\* the dependency map with edge set E, each list in the order prio
DepMap(n, E, prio) ==
    [id \in 1..n |-> ListBy({d \in KnownIds(n) : <<id, d>> \in E}, prio)]

DepMaps(n) == {DepMap(n, E, prio) : E \in EdgeSets(n), prio \in Perms(KnownIds(n))}

\* d is reachable from id along one or more dependency edges
RECURSIVE ReachIn(_, _, _)
ReachIn(deps, frontier, k) ==
    IF k = 0 THEN frontier
    ELSE LET next == frontier \cup
                     UNION {Range(GraphGet(deps, x)) : x \in frontier}
         IN  ReachIn(deps, next, k - 1)

DependsOnTransitively(deps, id) ==
    ReachIn(deps, Range(GraphGet(deps, id)), MaxSubtasks)

HasCycle(deps) == \E id \in DOMAIN deps : id \in DependsOnTransitively(deps, id)

ResolverIdle ==
    /\ subtasks = <<>>
    /\ dependencies = <<>>
    /\ directorOrder = NoOrder
    /\ loopOrder = NoOrder
    /\ loopRun = NoRun
    /\ rpc = "idle"

ResolverInit ==
    /\ \E n \in 0..MaxSubtasks :
        /\ subtasks = [i \in 1..n |-> i]
        /\ dependencies \in DepMaps(n)
    /\ directorOrder = NoOrder
    /\ loopOrder = NoOrder
    /\ loopRun = NoRun
    /\ rpc = "input"

\* DirectorAI._determine_execution_order(subtasks, dependencies)
DirectorResolve ==
    /\ rpc = "input"
    /\ directorOrder' = determine_execution_order(subtasks, dependencies)
    /\ rpc' = "director"
    /\ UNCHANGED <<subtasks, dependencies, loopOrder, loopRun>>
    /\ UNCHANGED <<retryVars, commandVars, directorVars, taskVars, decompVars>>

\* TaskExecutionLoop.__init__: the state, the empty results, the graph and
\* the execution order; no loop object exists when the order raises
LoopResolve ==
    /\ rpc = "input"
    /\ loopOrder' = calculate_execution_order(subtasks, dependencies)
    /\ loopRun' = IF loopOrder'.raised THEN NoRun
                  ELSE [NoRun EXCEPT !.state = "initialized"]
    /\ rpc' = "loop"
    /\ UNCHANGED <<subtasks, dependencies, directorOrder>>
    /\ UNCHANGED <<retryVars, commandVars, directorVars, taskVars, decompVars>>

\* TaskExecutionLoop.run() on the loop just constructed
LoopRun ==
    /\ rpc = "loop"
    /\ loopRun.state = "initialized"
    /\ loopRun' = run_loop(build_dependency_graph(subtasks, dependencies),
                           loopOrder.order, loopRun)
    /\ rpc' = "ran"
    /\ UNCHANGED <<subtasks, dependencies, directorOrder, loopOrder>>
    /\ UNCHANGED <<retryVars, commandVars, directorVars, taskVars, decompVars>>

ResolverNext == DirectorResolve \/ LoopResolve \/ LoopRun

\* ------------------------------------- backend retry loop and worker
\* agno_client.py: max_retries = 3
max_retries == 3
\* agno_client.py: retry_delay = 2
initial_retry_delay == 2

\* how the try body of one attempt (setup when needed, then agent.arun) ends;
\* an entry of outcomes also tells whether agent.arun was reached
Outcomes == {"ok", "transient", "permanent"}

\* the number of agent.arun calls among the attempts os
ArunCount(os) == Cardinality({j \in DOMAIN os : os[j].arun})

\* "loading model" in str(e).lower() or "timed out" in str(e).lower()
IsTransient(outcome) == outcome = "transient"

\* run_query: (transient) and attempt < max_retries - 1
ShouldWait(outcome, att) == IsTransient(outcome) /\ att < max_retries - 1

\* run_query: if attempt >= max_retries - 1: return the error text
IsLastAttempt(att) == att >= max_retries - 1

\* a backoff that never grows
NextDelaySame(d) == d

\* run_query: retry_delay *= 2
NextDelay(d) == d * 2

NoResult == [status |-> "none", error |-> "none", content |-> "none",
             requirements_met |-> "none"]

\* what the backend answers when it answers: some text, or the JSON of a
\* requirement check that found none, some or all requirements met
Answers == {"text", "json_none", "json_some", "json_all"}

\* _validate_requirements (worker.py 303-341): parsed_result.get(
\* "requirements_met", []) of the check's answer; an answer that does not
\* parse raises inside the try and gives []
requirements_met(text) ==
    IF text = "json_all" THEN "all"
    ELSE IF text = "json_some" THEN "some"
    ELSE "none"

\* the locals of a fresh run_query call
RunQueryEntry ==
    /\ attempt' = 0
    /\ retry_delay' = initial_retry_delay
    /\ sleeps' = <<>>
    /\ outcomes' = <<>>

RunQueryLocalsUnchanged == UNCHANGED <<attempt, retry_delay, sleeps, outcomes>>

RetryIdle ==
    /\ wpc = "idle"
    /\ phase = "none"
    /\ hasRequirements = FALSE
    /\ setup_complete = FALSE
    /\ attempt = 0
    /\ retry_delay = initial_retry_delay
    /\ sleeps = <<>>
    /\ outcomes = <<>>
    /\ runLog = <<>>
    /\ wStatus = "pending"
    /\ resultContent = "none"
    /\ execResult = NoResult

\* a pending subtask, with or without requirements, and a client that an
\* earlier query may have set up already
RetryInit ==
    /\ wpc = "idle"
    /\ phase = "none"
    /\ hasRequirements \in BOOLEAN
    /\ setup_complete \in BOOLEAN
    /\ attempt = 0
    /\ retry_delay = initial_retry_delay
    /\ sleeps = <<>>
    /\ outcomes = <<>>
    /\ runLog = <<>>
    /\ wStatus = "pending"
    /\ resultContent = "none"
    /\ execResult = NoResult

\* WorkerAI.execute_task up to the first generate_with_template call:
\* task.status = "executing"
WorkerBegin ==
    /\ wpc = "idle"
    /\ wStatus' = "executing"
    /\ phase' = "generate"
    /\ wpc' = "render"
    /\ UNCHANGED <<hasRequirements, setup_complete, runLog, resultContent, execResult>>
    /\ RunQueryLocalsUnchanged
    /\ UNCHANGED <<resolverVars, commandVars, directorVars, taskVars, decompVars>>

\* worker.py except branch: task.status = "failed", a FAILED result with the error
WorkerFailed(err) ==
    /\ wStatus' = "failed"
    /\ execResult' = [status |-> "failed", error |-> err, content |-> "none",
                      requirements_met |-> "none"]
    /\ wpc' = "done"

\* a worker for which a requirement check that does not find every
\* requirement met is a failure of the execution
WorkerCompletedIfAllMet(text, met) ==
    /\ wStatus' = IF met = "all" THEN "completed" ELSE "failed"
    /\ execResult' = [status |-> IF met = "all" THEN "completed" ELSE "failed",
                      error |-> IF met = "all" THEN "none" ELSE "requirements",
                      content |-> text, requirements_met |-> met]
    /\ wpc' = "done"

\* a worker whose COMPLETED result leaves the generated text out
WorkerCompletedNoOutput(text, met) ==
    /\ wStatus' = "completed"
    /\ execResult' = [status |-> "completed", error |-> "none", content |-> "none",
                      requirements_met |-> met]
    /\ wpc' = "done"

\* worker.py: task.result = result_content; task.status = "completed";
\* a COMPLETED result carrying result_content, whatever text that is, and
\* the requirements the check found met
WorkerCompleted(text, met) ==
    /\ wStatus' = "completed"
    /\ execResult' = [status |-> "completed", error |-> "none", content |-> text,
                      requirements_met |-> met]
    /\ wpc' = "done"

\* the worker after a generate_with_template call returned text: after
\* generation it checks the requirements (another generate_with_template)
\* when there are some, else it completes; after the check it completes
WorkerGotText(text) ==
    IF phase = "generate"
    THEN /\ resultContent' = text
         /\ IF hasRequirements
            THEN /\ phase' = "validate"
                 /\ wpc' = "render"
                 /\ UNCHANGED <<wStatus, execResult>>
            ELSE \* _validate_requirements returns [] without a check
                 /\ WorkerCompleted(text, "none")
                 /\ UNCHANGED phase
    ELSE /\ WorkerCompleted(resultContent, requirements_met(text))
         /\ UNCHANGED <<phase, resultContent>>

\* LLMManager.generate_with_template: the template is loaded and rendered,
\* generate() enters run_query
RenderOk ==
    /\ wpc = "render"
    /\ wpc' = "attempt"
    /\ RunQueryEntry
    /\ UNCHANGED <<phase, hasRequirements, setup_complete, runLog, wStatus,
                   resultContent, execResult>>
    /\ UNCHANGED <<resolverVars, commandVars, directorVars, taskVars, decompVars>>

\* generate_with_template: load_template raises ValueError and the text
\* "template error" is returned as the generated text; no backend call.
\* In the generation phase the worker goes on to the requirement check.
TemplateMissing ==
    /\ wpc = "render"
    /\ WorkerGotText("template_error_text")
    /\ UNCHANGED <<hasRequirements, setup_complete, runLog>>
    /\ RunQueryLocalsUnchanged
    /\ UNCHANGED <<resolverVars, commandVars, directorVars, taskVars, decompVars>>

\* rendering raises something that is no ValueError (json.dumps of a value
\* that cannot be serialised): in the generation phase the worker's except
\* branch makes the FAILED result; in the requirement check
\* _validate_requirements catches it and returns []
RenderRaises ==
    /\ wpc = "render"
    /\ IF phase = "generate"
       THEN WorkerFailed("render_error")
       ELSE WorkerCompleted(resultContent, "none")
    /\ UNCHANGED <<phase, hasRequirements, setup_complete, runLog, resultContent>>
    /\ RunQueryLocalsUnchanged
    /\ UNCHANGED <<resolverVars, commandVars, directorVars, taskVars, decompVars>>

\* run_query returns text to generate(), generate_with_template() and the worker
RunQueryReturns(text) ==
    /\ runLog' = Append(runLog, [phase |-> phase, outcomes |-> outcomes',
                                 sleeps |-> sleeps, result |-> text])
    /\ WorkerGotText(text)

\* one pass of the try body of run_query.  setup() runs first when the
\* client is not set up and may raise before agent.arun is reached.
Attempt(outcome, setupOk, answer) ==
    /\ wpc = "attempt"
    /\ (setup_complete => setupOk)
    /\ (~setupOk => outcome # "ok")
    /\ setup_complete' = (setup_complete \/ setupOk)
    /\ outcomes' = Append(outcomes, [result |-> outcome, arun |-> setupOk])
    /\ UNCHANGED hasRequirements
    /\ UNCHANGED <<resolverVars, commandVars, directorVars, taskVars, decompVars>>
    /\ IF outcome = "ok"
       THEN \* return response.content
            /\ RunQueryReturns(answer)
            /\ UNCHANGED <<attempt, retry_delay, sleeps>>
       ELSE IF ShouldWait(outcome, attempt)
       THEN \* await asyncio.sleep(retry_delay)
            /\ sleeps' = Append(sleeps, retry_delay)
            /\ wpc' = "sleep"
            /\ UNCHANGED <<attempt, retry_delay, phase, runLog, wStatus,
                           resultContent, execResult>>
       ELSE IF IsLastAttempt(attempt)
       THEN \* return the error text
            /\ RunQueryReturns("error_text_" \o outcome)
            /\ UNCHANGED <<attempt, retry_delay, sleeps>>
       ELSE \* neither branch: the for loop goes on to the next attempt at once
            /\ attempt' = attempt + 1
            /\ UNCHANGED <<retry_delay, sleeps>>
            /\ IF attempt + 1 < max_retries
               THEN UNCHANGED <<wpc, phase, runLog, wStatus, resultContent, execResult>>
               ELSE \* range(max_retries) is used up: the closing return
                    RunQueryReturns("error_text_exhausted")

\* the sleep is over: retry_delay *= 2; continue
Wake ==
    /\ wpc = "sleep"
    /\ retry_delay' = NextDelay(retry_delay)
    /\ attempt' = attempt + 1
    /\ UNCHANGED <<hasRequirements, setup_complete, sleeps, outcomes>>
    /\ IF attempt + 1 < max_retries
       THEN /\ wpc' = "attempt"
            /\ UNCHANGED <<phase, runLog, wStatus, resultContent, execResult>>
       ELSE \* range(max_retries) is used up: the closing return
            RunQueryReturns("error_text_exhausted")
    /\ UNCHANGED <<resolverVars, commandVars, directorVars, taskVars, decompVars>>

\* the ways one attempt goes: what the backend answers matters only when
\* the attempt succeeds
AttemptCalls ==
    [outcome : Outcomes, setupOk : BOOLEAN, answer : {"text"}]
    \cup [outcome : {"ok"}, setupOk : BOOLEAN, answer : Answers]

RetryNext ==
    \/ WorkerBegin
    \/ RenderOk
    \/ TemplateMissing
    \/ RenderRaises
    \/ \E call \in AttemptCalls : Attempt(call.outcome, call.setupOk, call.answer)
    \/ Wake

\* ------------------------------------ session, commands, worker messages
\* number of subtask ids a session's callers use
MaxSessionSubtasks == 2

SessionIds == 1..MaxSessionSubtasks

\* types.py SubtaskStatus
SubtaskStatuses == {"pending", "blocked", "in_progress", "reviewing", "revising",
                    "completed", "failed"}

\* types.py TaskStatus
TaskStatuses == {"pending", "planning", "awaiting_feedback", "executing",
                 "integrating", "completed", "failed", "cancelled"}

\* spec 3: COMPLETED, FAILED, CANCELLED are terminal
TerminalStatuses == {"completed", "failed", "cancelled"}

\* types.py MessageType
MessageTypes == {"command", "response", "error", "status", "feedback", "query"}

\* the senders of the messages a component receives
Senders == {"director", "client"}

\* Session.get_subtask: the id is registered
Registered(subs, id) == id \in DOMAIN subs

\* Session.add_subtask: self.subtasks[task.id] = task, a present id included
add_subtask(subs, id, status) ==
    [x \in DOMAIN subs \cup {id} |-> IF x = id THEN status ELSE subs[x]]

\* Session.update_task_status -> SubTask.update_status: self.status = status;
\* an unknown id is skipped with a warning
update_task_status(subs, id, status) ==
    IF Registered(subs, id) THEN [subs EXCEPT ![id] = status] ELSE subs

\* ---- ExecuteTaskCommand.execute
\* worker: how worker.execute_task(task=.., context=..) behaves
\*   kind "raise_attr": an AttributeError (no such method, or a coroutine
\*        returned by an async worker, whose .status does not exist)
\*   kind "raise":      any other exception
\*   kind "return":     a TaskExecutionResult with the status `status`;
\*        dumpOk tells whether model_dump(mode="json") of it succeeds
\* the statuses the results are drawn from: success, failure, a TaskStatus
\* that is not terminal, and the terminal one that is neither
ResultStatuses == {"completed", "failed", "pending", "cancelled"}

WorkerBehaviours ==
    [kind : {"raise_attr", "raise"}, status : {"none"}, dumpOk : {TRUE}]
    \cup [kind : {"return"}, status : ResultStatuses, dumpOk : BOOLEAN]

\* the outcome of a command: the returned dict (status, error) or an
\* exception leaving execute(), and the Session's subtasks afterwards
Outcome(raised, status, error, subs, setInProgress, called) ==
    [raised |-> raised, status |-> status, error |-> error, subs |-> subs,
     setInProgress |-> setInProgress, called |-> called]

\* an execute_task handler that records a failed subtask for an id it does
\* not find
ExecuteTaskCommand_execute_recording(subs, id, hashable, worker) ==
    IF ~hasWorker
    THEN Outcome(FALSE, "failure", "worker_missing", subs, FALSE, FALSE)
    ELSE IF ~hashable
    THEN Outcome(TRUE, "none", "TypeError", subs, FALSE, FALSE)
    ELSE IF ~Registered(subs, id)
    THEN Outcome(FALSE, "failure", "subtask_not_found",
                 add_subtask(subs, id, "failed"), FALSE, FALSE)
    ELSE Outcome(FALSE, "failure", "execution_error",
                 update_task_status(subs, id, "failed"), TRUE, TRUE)

\* ExecuteTaskCommand.execute (commands.py 134-189)
ExecuteTaskCommand_execute(subs, id, hashable, worker) ==
    IF ~hasWorker
    THEN \* worker component not found
         Outcome(FALSE, "failure", "worker_missing", subs, FALSE, FALSE)
    ELSE IF ~hashable
    THEN \* self.session.get_subtask raises on an unhashable id, before the try
         Outcome(TRUE, "none", "TypeError", subs, FALSE, FALSE)
    ELSE IF ~Registered(subs, id)
    THEN Outcome(FALSE, "failure", "subtask_not_found", subs, FALSE, FALSE)
    ELSE LET s1 == update_task_status(subs, id, "in_progress") IN
         IF worker.kind = "raise_attr"
         THEN \* except AttributeError: mark FAILED
              Outcome(FALSE, "failure", "no_execute_task",
                      update_task_status(s1, id, "failed"), TRUE, TRUE)
         ELSE IF worker.kind = "raise"
         THEN \* except Exception: mark FAILED
              Outcome(FALSE, "failure", "execution_error",
                      update_task_status(s1, id, "failed"), TRUE, TRUE)
         ELSE LET s2 == update_task_status(s1, id, worker.status) IN
              IF worker.dumpOk
              THEN Outcome(FALSE,
                           IF worker.status = "completed" THEN "success" ELSE "failure",
                           "none", s2, TRUE, TRUE)
              ELSE \* model_dump raises after the final status was written
                   Outcome(FALSE, "failure", "execution_error",
                           update_task_status(s2, id, "failed"), TRUE, TRUE)

\* ---- PlanTaskCommand.execute
\* planner: how planner.plan_task(task=.., requirements=..) behaves
\*   kind "raise_attr" / "raise": as for the worker
\*   kind "return": a plan; ids are the subtasks of it that validate as
\*        SubTask (the others are skipped with a warning); dict tells whether
\*        the plan is a dict with a "subtasks" key
PlannerBehaviours ==
    [kind : {"raise_attr", "raise"}, ids : {{}}, dict : {TRUE}]
    \cup [kind : {"return"}, ids : SUBSET SessionIds, dict : {TRUE}]
    \cup [kind : {"return"}, ids : {{}}, dict : {FALSE}]

\* the validated subtasks of the plan, each added with SubTask's default
\* status; a registered id is overwritten
RECURSIVE AddAll(_, _)
AddAll(subs, ids) ==
    IF ids = {} THEN subs
    ELSE LET id == CHOOSE x \in ids : TRUE
         IN  AddAll(add_subtask(subs, id, "pending"), ids \ {id})

\* PlanTaskCommand.execute (commands.py 51-114)
PlanTaskCommand_execute(subs, idIsStr, planner) ==
    IF ~hasPlanner
    THEN Outcome(FALSE, "failure", "planner_missing", subs, FALSE, FALSE)
    ELSE IF ~idIsStr
    THEN \* TaskModel(id=self.task_id, ..) raises ValidationError, before the try
         Outcome(TRUE, "none", "ValidationError", subs, FALSE, FALSE)
    ELSE IF planner.kind = "raise_attr"
    THEN Outcome(FALSE, "failure", "no_plan_task", subs, FALSE, TRUE)
    ELSE IF planner.kind = "raise"
    THEN Outcome(FALSE, "failure", "planning_error", subs, FALSE, TRUE)
    ELSE Outcome(FALSE, "success", "none",
                 IF planner.dict THEN AddAll(subs, planner.ids) ELSE subs,
                 FALSE, TRUE)

\* ---- CommandDispatcher.execute_command
\* CommandDispatcher.command_map
command_map == {"plan_task", "execute_task"}

CommandTypes == command_map \cup {"integrate_results"}

\* a dispatcher that lets an exception of the command through
DispatcherBoundaryOpen(out) == out

\* execute_command's try/except around instantiation and execute():
\* TypeError and every other Exception become a failure dict
DispatcherBoundary(out) ==
    IF out.raised
    THEN [out EXCEPT !.raised = FALSE, !.status = "failure",
                     !.error = IF out.error = "TypeError" THEN "bad_arguments"
                               ELSE "unexpected_error"]
    ELSE out

\* a dispatcher that treats an unregistered name as a programming error
execute_command_raising(ctype, out) ==
    IF ctype \notin command_map
    THEN Outcome(TRUE, "none", "ValueError", sessSubtasks, FALSE, FALSE)
    ELSE DispatcherBoundary(out)

\* CommandDispatcher.execute_command (commands.py 215-263); out is what
\* instantiating and executing the command registered under ctype does
execute_command(ctype, out) ==
    IF ctype \notin command_map
    THEN \* return {"error": .., "status": "failure"}
         Outcome(FALSE, "failure", "unknown_command", sessSubtasks, FALSE, FALSE)
    ELSE DispatcherBoundary(out)

\* command_class(session=self.session, **kwargs): wrong kwargs raise TypeError
Instantiate(kwargsOk, out) ==
    IF kwargsOk THEN out
    ELSE Outcome(TRUE, "none", "TypeError", sessSubtasks, FALSE, FALSE)

StatusOf(subs, id) == IF Registered(subs, id) THEN subs[id] ELSE "absent"

NoCall == [op |-> "none"]

CommandIdle ==
    /\ cpc = "idle"
    /\ sessSubtasks = <<>>
    /\ hasPlanner = FALSE
    /\ hasWorker = FALSE
    /\ last = NoCall

\* Session.__init__ without initial tasks; the factory may have made the
\* planner and the worker or not
CommandInit ==
    /\ cpc = "ready"
    /\ sessSubtasks = <<>>
    /\ hasPlanner \in BOOLEAN
    /\ hasWorker \in BOOLEAN
    /\ last = NoCall

\* Session.add_subtask(SubTask(id=id, ..)): a new subtask, status PENDING
AddSubtask(id) ==
    /\ cpc = "ready"
    /\ sessSubtasks' = add_subtask(sessSubtasks, id, "pending")
    /\ last' = [op |-> "add_subtask"]
    /\ UNCHANGED <<cpc, hasPlanner, hasWorker>>
    /\ UNCHANGED <<resolverVars, retryVars, directorVars, taskVars, decompVars>>

\* Session.update_task_status(id, status) called by any component
UpdateTaskStatus(id, status) ==
    /\ cpc = "ready"
    /\ sessSubtasks' = update_task_status(sessSubtasks, id, status)
    /\ last' = [op |-> "update_task_status"]
    /\ UNCHANGED <<cpc, hasPlanner, hasWorker>>
    /\ UNCHANGED <<resolverVars, retryVars, directorVars, taskVars, decompVars>>

\* what execute_command returned, the subtask's status before and after, and
\* the ids the call registered
Dispatched(ctype, id, out) ==
    /\ sessSubtasks' = out.subs
    /\ last' = [op |-> "dispatch", ctype |-> ctype, id |-> id,
                raised |-> out.raised, status |-> out.status,
                error |-> out.error, setInProgress |-> out.setInProgress,
                called |-> out.called,
                before |-> StatusOf(sessSubtasks, id),
                after |-> StatusOf(out.subs, id),
                added |-> DOMAIN out.subs \ DOMAIN sessSubtasks]
    /\ UNCHANGED <<cpc, hasPlanner, hasWorker>>
    /\ UNCHANGED <<resolverVars, retryVars, directorVars, taskVars, decompVars>>

\* execute_command with a name that is not in command_map
DispatchUnknown(ctype) ==
    /\ cpc = "ready"
    /\ Dispatched(ctype, 0, execute_command(ctype, NoCall))

\* no planner or worker is reached by this call
NoCollaborator == [kind |-> "raise", status |-> "none", dumpOk |-> TRUE, ids |-> {},
                   dict |-> TRUE]

\* the calls of plan_task: wrong kwargs, a task_id that is no string, or a
\* well-formed call with some planner behaviour
PlanCalls ==
    {[kwargsOk |-> FALSE, idIsStr |-> TRUE, planner |-> NoCollaborator],
     [kwargsOk |-> TRUE, idIsStr |-> FALSE, planner |-> NoCollaborator]}
    \cup [kwargsOk : {TRUE}, idIsStr : {TRUE}, planner : PlannerBehaviours]

\* the calls of execute_task: wrong kwargs, an unhashable task_id, or a
\* well-formed call with some worker behaviour
ExecuteCalls ==
    {[kwargsOk |-> FALSE, hashable |-> TRUE, id |-> 0, worker |-> NoCollaborator],
     [kwargsOk |-> TRUE, hashable |-> FALSE, id |-> 0, worker |-> NoCollaborator]}
    \cup [kwargsOk : {TRUE}, hashable : {TRUE}, id : SessionIds,
          worker : WorkerBehaviours]

\* execute_command("plan_task", task_id=.., title=.., ..)
DispatchPlanTask(call) ==
    /\ cpc = "ready"
    /\ Dispatched("plan_task", 0,
                  execute_command("plan_task",
                      Instantiate(call.kwargsOk,
                          PlanTaskCommand_execute(sessSubtasks, call.idIsStr,
                                                  call.planner))))

\* execute_command("execute_task", task_id=id)
DispatchExecuteTask(call) ==
    /\ cpc = "ready"
    /\ Dispatched("execute_task", call.id,
                  execute_command("execute_task",
                      Instantiate(call.kwargsOk,
                          ExecuteTaskCommand_execute(sessSubtasks, call.id,
                                                     call.hashable, call.worker))))

CommandNext ==
    \/ \E id \in SessionIds : AddSubtask(id)
    \/ \E id \in SessionIds, status \in SubtaskStatuses : UpdateTaskStatus(id, status)
    \/ \E ctype \in CommandTypes \ command_map : DispatchUnknown(ctype)
    \/ \E call \in PlanCalls : DispatchPlanTask(call)
    \/ \E call \in ExecuteCalls : DispatchExecuteTask(call)

\* ------------------------------------------------- DirectorAI processes
\* number of subtasks in a plan the planner returns
MaxPlanSubtasks == 2

\* the id of the main task handed to execute_process
MainTaskId == 0

\* the id of the fallback plan's only subtask, f"{task_id}-sub1"
FallbackSubtaskId == MainTaskId - 1

NoPlan == [subtasks |-> <<>>, dependencies |-> <<>>]

\* the plans planner.plan_task returns: subtasks 1..n with a dependency map
Plans ==
    UNION {[subtasks : {[i \in 1..n |-> i]}, dependencies : DepMaps(n)] :
              n \in 0..MaxPlanSubtasks}

\* DirectorAI._create_fallback_plan (director.py 415-446)
create_fallback_plan == [subtasks |-> <<FallbackSubtaskId>>, dependencies |-> <<>>]

\* DirectorAI._update_task_status: task.status = status on the registered
\* task; an unregistered id is only logged
director_update_task_status(subs, id, status) ==
    IF Registered(subs, id) THEN [subs EXCEPT ![id] = status] ELSE subs

\* DirectorAI._is_successful on a TaskExecutionResult
is_successful(result) == result.status = "completed"

\* sum(1 for r in results if self._is_successful(r))
successful_count(results) ==
    Cardinality({i \in DOMAIN results : is_successful(results[i])})

\* sum(1 for r in results if not self._is_successful(r))
failed_count(results) ==
    Cardinality({i \in DOMAIN results : ~is_successful(results[i])})

\* DirectorAI.integrate_results (director.py 228-313): generated is whether
\* the backend call and the parsing of its answer went through
integrate_results(results, generated) ==
    IF generated
    THEN [status |-> "completed",
          successful_count |-> successful_count(results),
          failed_count |-> failed_count(results),
          total_results |-> Len(results)]
    ELSE [status |-> "error", successful_count |-> 0, failed_count |-> 0,
          total_results |-> Len(results)]

NoFinal == [status |-> "none", successful_count |-> 0, failed_count |-> 0,
            total_results |-> 0]

\* BaseAIComponent._create_error_response / _create_response
ErrorReply(receiver) == <<[type |-> "error", receiver |-> receiver]>>

ResponseReply(receiver) == <<[type |-> "response", receiver |-> receiver]>>

\* what _process_command returned: the reply, whether execute_process ran
\* and raised, and the result of the integration
DirectorReturned(action, processRaised, msgs, final) ==
    last' = [op |-> "director_command", action |-> action, raised |-> FALSE,
             processRaised |-> processRaised, msgs |-> msgs, final |-> final]

DirectorIdle ==
    /\ dpc = "off"
    /\ sessionStatus = "pending"
    /\ hasEvaluator = FALSE
    /\ dSender = "none"
    /\ plan_result = NoPlan
    /\ execution_order = <<>>
    /\ dIdx = 0
    /\ execution_results = <<>>
    /\ execLog = <<>>
    /\ evalLog = <<>>

\* a fresh Session whose main task is registered as a subtask or not, with
\* the components the factory made, and a DirectorAI on it
DirectorInit ==
    /\ dpc = "ready"
    /\ sessionStatus = "pending"
    /\ hasEvaluator \in BOOLEAN
    /\ dSender = "none"
    /\ plan_result = NoPlan
    /\ execution_order = <<>>
    /\ dIdx = 0
    /\ execution_results = <<>>
    /\ execLog = <<>>
    /\ evalLog = <<>>
    /\ cpc = "idle"
    /\ sessSubtasks \in {<<>>, [id \in {MainTaskId} |-> "pending"]}
    /\ hasPlanner \in BOOLEAN
    /\ hasWorker \in BOOLEAN
    /\ last = NoCall

DirectorLocalsUnchanged ==
    UNCHANGED <<plan_result, execution_order, dIdx, execution_results, execLog,
                evalLog>>

DirectorFrame ==
    /\ UNCHANGED <<cpc, hasPlanner, hasWorker, hasEvaluator>>
    /\ UNCHANGED <<resolverVars, retryVars, taskVars, decompVars>>

\* execute_process's except branch (217-226): the task is marked FAILED, the
\* session FAILED, the error is re-raised; _process_command's except branch
\* (105-111) turns it into an error reply
ProcessFails(subs, sender) ==
    /\ sessSubtasks' = director_update_task_status(subs, MainTaskId, "failed")
    /\ sessionStatus' = "failed"
    /\ dpc' = "replied"
    /\ DirectorReturned("start_process", TRUE, ErrorReply(sender), NoFinal)

\* the for loop of execute_process (168-183) at position i of order: the
\* SubTask is created and registered, and worker.execute_task is awaited,
\* which sets the subtask to "executing" before it reaches the backend;
\* past the end of order, integrate_results is awaited (208)
ProceedTo(i, order, subs) ==
    /\ dIdx' = i
    /\ sessionStatus' = sessionStatus
    /\ last' = last
    /\ IF i <= Len(order)
       THEN /\ sessSubtasks' = [add_subtask(subs, order[i], "pending")
                                    EXCEPT ![order[i]] = "executing"]
            /\ execLog' = Append(execLog, order[i])
            /\ dpc' = "execute_task"
       ELSE /\ sessSubtasks' = subs
            /\ execLog' = execLog
            /\ dpc' = "integrate"

\* the actions a command message to the Director may name
DirectorActions == {"start_process", "integrate_results", "status"}

\* _process_command (47-111) with an action it does not handle, or with
\* start_process without task_id: one error reply
DirectorRejects(sender, action) ==
    /\ dpc = "ready"
    /\ action # "integrate_results"
    /\ dSender' = sender
    /\ dpc' = "replied"
    /\ DirectorReturned(action, FALSE, ErrorReply(sender), NoFinal)
    /\ UNCHANGED <<sessSubtasks, sessionStatus>>
    /\ DirectorLocalsUnchanged
    /\ DirectorFrame

\* _process_command with integrate_results (81-99): no results is an error
\* reply; otherwise integrate_results runs to its end (it catches its own
\* errors), unless run_until_complete itself raises
IntegrateCommand(sender, results, loopOk, generated) ==
    /\ dpc = "ready"
    /\ dSender' = sender
    /\ dpc' = "replied"
    /\ IF results = <<>> \/ ~loopOk
       THEN DirectorReturned("integrate_results", FALSE, ErrorReply(sender), NoFinal)
       ELSE DirectorReturned("integrate_results", FALSE, ResponseReply(sender),
                             integrate_results(results, generated))
    /\ UNCHANGED <<sessSubtasks, sessionStatus>>
    /\ DirectorLocalsUnchanged
    /\ DirectorFrame

\* _process_command with start_process and a task_id: execute_process runs
\* up to its first await (120-146), unless run_until_complete raises before
\* the coroutine starts
StartProcess(sender, loopOk) ==
    /\ dpc = "ready"
    /\ dSender' = sender
    /\ IF ~loopOk
       THEN /\ dpc' = "replied"
            /\ DirectorReturned("start_process", FALSE, ErrorReply(sender), NoFinal)
            /\ UNCHANGED <<sessSubtasks, sessionStatus>>
       ELSE LET s1 == director_update_task_status(sessSubtasks, MainTaskId, "executing")
            IN  IF ~hasPlanner
                THEN \* raise ValueError: no planner
                     ProcessFails(s1, sender)
                ELSE /\ sessionStatus' = "running"
                     /\ sessSubtasks' = s1
                     /\ dpc' = "plan_task"
                     /\ last' = last
    /\ DirectorLocalsUnchanged
    /\ DirectorFrame

\* await planner.plan_task(task) returns a plan; validate_plan is awaited
PlanReturns(plan) ==
    /\ dpc = "plan_task"
    /\ plan_result' = plan
    /\ dpc' = "validate_plan"
    /\ UNCHANGED <<sessSubtasks, sessionStatus, last, dSender, execution_order, dIdx,
                   execution_results, execLog, evalLog>>
    /\ DirectorFrame

\* an awaited collaborator call raises (planner, worker, evaluator)
CollaboratorRaises ==
    /\ dpc \in {"plan_task", "validate_plan", "execute_task", "evaluate_task",
                "suggest_improvements", "reexecute"}
    /\ ProcessFails(sessSubtasks, dSender)
    /\ UNCHANGED dSender
    /\ DirectorLocalsUnchanged
    /\ DirectorFrame

\* await planner.validate_plan(plan_result) returns (149-183): a falsy
\* answer swaps in the fallback plan; then the worker is looked up, the
\* execution order determined, and the first subtask started
ValidateReturns(valid) ==
    /\ dpc = "validate_plan"
    /\ LET plan == IF valid THEN plan_result ELSE create_fallback_plan
           ord == determine_execution_order(plan.subtasks, plan.dependencies)
       IN  /\ plan_result' = plan
           /\ IF ~hasWorker \/ ord.raised
              THEN \* raise ValueError: no worker, or a dependency cycle
                   /\ ProcessFails(sessSubtasks, dSender)
                   /\ UNCHANGED <<execution_order, dIdx, execLog>>
              ELSE /\ execution_order' = ord.order
                   /\ ProceedTo(1, ord.order, sessSubtasks)
    /\ UNCHANGED <<dSender, execution_results, evalLog>>
    /\ DirectorFrame

\* the status WorkerAI.execute_task leaves on the subtask and in its result
WorkerResults == {"completed", "failed"}

CurrentId == execution_order[dIdx]

\* a Director that goes on while worker.execute_task has not returned: no
\* result is appended and the subtask keeps the status it had
WorkerReturnsNothing(status) ==
    /\ dpc = "execute_task"
    /\ execution_results' = execution_results
    /\ IF hasEvaluator
       THEN /\ sessSubtasks' = sessSubtasks
            /\ dpc' = "evaluate_task"
            /\ UNCHANGED <<dIdx, execLog, sessionStatus, last>>
       ELSE ProceedTo(dIdx + 1, execution_order, sessSubtasks)
    /\ UNCHANGED <<dSender, plan_result, execution_order, evalLog>>
    /\ DirectorFrame

\* await worker.execute_task(subtask) returns (183-189): the result is
\* appended; with an evaluator, evaluate_task is awaited, without one the
\* loop goes on
WorkerReturns(status) ==
    /\ dpc = "execute_task"
    /\ execution_results' = Append(execution_results, [id |-> CurrentId, status |-> status])
    /\ LET s1 == [sessSubtasks EXCEPT ![CurrentId] = status]
       IN  IF hasEvaluator
           THEN /\ sessSubtasks' = s1
                /\ dpc' = "evaluate_task"
                /\ UNCHANGED <<dIdx, execLog, sessionStatus, last>>
           ELSE ProceedTo(dIdx + 1, execution_order, s1)
    /\ UNCHANGED <<dSender, plan_result, execution_order, evalLog>>
    /\ DirectorFrame

\* the threshold of the evaluation score, 0.7, in tenths
score_threshold == 7

\* the evaluations evaluator.evaluate_task returns: a dict with a score (in
\* tenths) or without one, or something that is not a dict
Evaluations ==
    [kind : {"dict", "object"}, score : {3, score_threshold, 9}]
    \cup {[kind |-> "dict", score |-> 0 - 1]}

\* isinstance(evaluation, dict) and evaluation.get("score", 0) < 0.7
needs_improvement(evaluation) ==
    /\ evaluation.kind = "dict"
    /\ (IF evaluation.score < 0 THEN 0 ELSE evaluation.score) < score_threshold

\* await evaluator.evaluate_task returns (190-194): low is a dict whose
\* score is below 0.7, for which suggest_improvements is awaited
EvaluationReturns(low) ==
    /\ dpc = "evaluate_task"
    /\ IF low
       THEN /\ dpc' = "suggest_improvements"
            /\ UNCHANGED <<sessSubtasks, dIdx, execLog, sessionStatus, last>>
       ELSE ProceedTo(dIdx + 1, execution_order, sessSubtasks)
    /\ evalLog' = IF low THEN evalLog
                  ELSE Append(evalLog, [id |-> CurrentId, verdict |-> "high"])
    /\ UNCHANGED <<dSender, plan_result, execution_order, execution_results>>
    /\ DirectorFrame

\* await evaluator.suggest_improvements returns (195-201): with a non-empty
\* list _reexecute_with_improvements awaits worker.execute_task again
SuggestionsReturn(some) ==
    /\ dpc = "suggest_improvements"
    /\ IF some
       THEN /\ dpc' = "reexecute"
            /\ sessSubtasks' = [sessSubtasks EXCEPT ![CurrentId] = "executing"]
            /\ execLog' = Append(execLog, CurrentId)
            /\ UNCHANGED <<dIdx, sessionStatus, last>>
       ELSE ProceedTo(dIdx + 1, execution_order, sessSubtasks)
    /\ evalLog' = Append(evalLog, [id |-> CurrentId,
                                   verdict |-> IF some THEN "low_some" ELSE "low_none"])
    /\ UNCHANGED <<dSender, plan_result, execution_order, execution_results>>
    /\ DirectorFrame

\* a re-execution whose result is evaluated again
ReexecutionReturnsToEvaluation(status) ==
    /\ dpc = "reexecute"
    /\ execution_results' = [execution_results EXCEPT ![Len(execution_results)] =
                                 [id |-> CurrentId, status |-> status]]
    /\ sessSubtasks' = [sessSubtasks EXCEPT ![CurrentId] = status]
    /\ dpc' = "evaluate_task"
    /\ UNCHANGED <<dIdx, execLog, sessionStatus, last>>
    /\ UNCHANGED <<dSender, plan_result, execution_order, evalLog>>
    /\ DirectorFrame

\* the re-execution returns (201-204): execution_results[-1] = improved_result
ReexecutionReturns(status) ==
    /\ dpc = "reexecute"
    /\ execution_results' = [execution_results EXCEPT ![Len(execution_results)] =
                                 [id |-> CurrentId, status |-> status]]
    /\ ProceedTo(dIdx + 1, execution_order, [sessSubtasks EXCEPT ![CurrentId] = status])
    /\ UNCHANGED <<dSender, plan_result, execution_order, evalLog>>
    /\ DirectorFrame

\* await self.integrate_results(execution_results) returns (208-215): the
\* task is marked COMPLETED, the session COMPLETED, and _process_command
\* replies with process_started
IntegrationReturns(generated) ==
    /\ dpc = "integrate"
    /\ sessSubtasks' = director_update_task_status(sessSubtasks, MainTaskId, "completed")
    /\ sessionStatus' = "completed"
    /\ dpc' = "replied"
    /\ DirectorReturned("start_process", FALSE, ResponseReply(dSender),
                        integrate_results(execution_results, generated))
    /\ UNCHANGED dSender
    /\ DirectorLocalsUnchanged
    /\ DirectorFrame

\* the awaits of execute_process, where other coroutines of the loop run
SuspensionPoints ==
    {"plan_task", "validate_plan", "execute_task", "evaluate_task",
     "suggest_improvements", "reexecute", "integrate"}

\* Session.update_session_status(SessionStatus.CANCELLED) (session.py
\* 162-166), called by another coroutine while execute_process is suspended:
\* self.status = status
CancelSession ==
    /\ dpc \in SuspensionPoints
    /\ sessionStatus # "cancelled"
    /\ sessionStatus' = "cancelled"
    /\ UNCHANGED <<dpc, sessSubtasks, last, dSender>>
    /\ DirectorLocalsUnchanged
    /\ DirectorFrame

\* the result lists a caller passes to integrate_results
ResultLists ==
    {<<>>} \cup {<<[id |-> 1, status |-> st]>> : st \in WorkerResults}

DirectorNext ==
    \/ \E sender \in Senders, action \in DirectorActions : DirectorRejects(sender, action)
    \/ \E sender \in Senders, results \in ResultLists, loopOk \in BOOLEAN,
          generated \in BOOLEAN : IntegrateCommand(sender, results, loopOk, generated)
    \/ \E sender \in Senders, loopOk \in BOOLEAN : StartProcess(sender, loopOk)
    \/ \E plan \in Plans : PlanReturns(plan)
    \/ CollaboratorRaises
    \/ \E valid \in BOOLEAN : ValidateReturns(valid)
    \/ \E status \in WorkerResults : WorkerReturns(status)
    \/ \E evaluation \in Evaluations : EvaluationReturns(needs_improvement(evaluation))
    \/ \E some \in BOOLEAN : SuggestionsReturn(some)
    \/ \E status \in WorkerResults : ReexecutionReturns(status)
    \/ \E generated \in BOOLEAN : IntegrationReturns(generated)
    \/ CancelSession

\* ------------------------------------------- WorkerAI.process_message
\* the actions a command message to the worker may name
WorkerActions == {"execute_task", "stop_execution", "status"}

NoTaskId == 0

\* the session ids a message may carry; the component's Session is OwnSession
SessionNames == {"s1", "s2"}

OwnSession == "s1"

\* BaseAIComponent._create_message (types.py 556-577) and _create_response /
\* _create_error_response (components/base.py 50-84): the sender is the
\* component's own type and session_id is self.session.id
create_message(component_type, msgs) ==
    [i \in DOMAIN msgs |-> [type |-> msgs[i].type, receiver |-> msgs[i].receiver,
                            sender |-> component_type, session_id |-> OwnSession]]

\* the messages the worker receives: any type from any sender; a command
\* names an action and carries a task_id or none
WorkerMessages ==
    [type : MessageTypes \ {"command"}, sender : Senders, action : {"status"},
     task_id : {NoTaskId}, session_id : SessionNames]
    \cup [type : {"command"}, sender : Senders, action : WorkerActions,
          task_id : SessionIds \cup {NoTaskId}, session_id : SessionNames]

\* how loop.run_until_complete(self.execute_task(..)) ends: it raises before
\* the coroutine starts, or execute_task runs to its end and leaves the
\* subtask completed or failed
WorkerRuns == {"loop_raises", "completed", "failed"}

Handled(raised, msgs, subs, executed) ==
    [raised |-> raised, msgs |-> msgs, subs |-> subs, executed |-> executed]

\* WorkerAI.stop_execution (worker.py 228-238)
stop_execution(subs, id) ==
    IF Registered(subs, id) /\ subs[id] = "executing"
    THEN [subs EXCEPT ![id] = "stopped"]
    ELSE subs

\* a worker that executes whatever task_id it is given, without looking the
\* subtask up in the Session
worker_command_unchecked(subs, m, run) ==
    IF m.action = "execute_task"
    THEN IF m.task_id = NoTaskId
         THEN Handled(FALSE, ErrorReply(m.sender), subs, FALSE)
         ELSE IF run = "loop_raises"
         THEN Handled(TRUE, <<>>, subs, FALSE)
         ELSE Handled(FALSE, ResponseReply(m.sender),
                      add_subtask(subs, m.task_id, run), TRUE)
    ELSE IF m.action = "stop_execution"
    THEN IF m.task_id = NoTaskId
         THEN Handled(FALSE, ErrorReply(m.sender), subs, FALSE)
         ELSE Handled(FALSE, ResponseReply(m.sender), stop_execution(subs, m.task_id),
                      FALSE)
    ELSE Handled(FALSE, ErrorReply(m.sender), subs, FALSE)

\* the try block of WorkerAI.process_message (55-113)
worker_command(subs, m, run) ==
    IF m.action = "execute_task"
    THEN IF m.task_id = NoTaskId \/ ~Registered(subs, m.task_id)
         THEN Handled(FALSE, ErrorReply(m.sender), subs, FALSE)
         ELSE IF run = "loop_raises"
         THEN Handled(TRUE, <<>>, subs, FALSE)
         ELSE Handled(FALSE, ResponseReply(m.sender),
                      [subs EXCEPT ![m.task_id] = run], TRUE)
    ELSE IF m.action = "stop_execution"
    THEN IF m.task_id = NoTaskId
         THEN Handled(FALSE, ErrorReply(m.sender), subs, FALSE)
         ELSE Handled(FALSE, ResponseReply(m.sender), stop_execution(subs, m.task_id),
                      FALSE)
    ELSE Handled(FALSE, ErrorReply(m.sender), subs, FALSE)

\* a process_message without its except branch
WorkerBoundaryOpen(out, m) == out

\* the except branch of WorkerAI.process_message (114-119)
WorkerBoundary(out, m) ==
    IF out.raised THEN Handled(FALSE, ErrorReply(m.sender), out.subs, out.executed)
    ELSE out

\* WorkerAI.process_message (worker.py 36-119)
worker_process_message(subs, m, run) ==
    IF m.type # "command"
    THEN Handled(FALSE, ErrorReply(m.sender), subs, FALSE)
    ELSE WorkerBoundary(worker_command(subs, m, run), m)

\* a Session with some registered subtasks, pending or in execution, and a
\* WorkerAI on it
MessageInit ==
    /\ cpc = "messages"
    /\ \E S \in SUBSET SessionIds : sessSubtasks \in [S -> {"pending", "executing"}]
    /\ hasPlanner = FALSE
    /\ hasWorker = TRUE
    /\ last = NoCall

\* worker.process_message(m)
WorkerProcessMessage(m, run) ==
    /\ cpc = "messages"
    /\ LET out == worker_process_message(sessSubtasks, m, run) IN
        /\ sessSubtasks' = out.subs
        /\ last' = [op |-> "worker_message", type |-> m.type, sender |-> m.sender,
                    action |-> m.action, task_id |-> m.task_id,
                    raised |-> out.raised, msgs |-> out.msgs,
                    executed |-> out.executed, before |-> sessSubtasks,
                    component |-> "WorkerAI", session_id |-> m.session_id,
                    replies |-> create_message("worker", out.msgs)]
    /\ UNCHANGED <<cpc, hasPlanner, hasWorker>>
    /\ UNCHANGED <<resolverVars, retryVars, directorVars, taskVars, decompVars>>

\* the calls of process_message: how the run ends matters only for an
\* execute_task command with a task_id
WorkerCalls ==
    [m : WorkerMessages, run : {"completed"}]
    \cup [m : {m \in WorkerMessages : m.type = "command" /\ m.action = "execute_task"
                                        /\ m.task_id # NoTaskId},
          run : WorkerRuns]

\* ---- BaseDirectorAI and BaseWorkerAI (components/base.py)
\* how the abstract method a command reaches behaves, and whether the
\* command carries the data it needs
Behaviours == {"returns", "raises", "no_data"}

BaseDirectorActions == {"start_process", "integrate", "status"}

BaseWorkerActions == {"execute", "stop", "status"}

\* the messages a base component receives
BaseMessages(actions) ==
    [type : MessageTypes \ {"command"}, sender : Senders, action : {"status"},
     task_id : {NoTaskId}, session_id : SessionNames]
    \cup [type : {"command"}, sender : Senders, action : actions,
          task_id : {NoTaskId, 1}, session_id : SessionNames]

\* the except branch of the _process_command methods of components/base.py
BaseBoundary(out, m) ==
    IF out.raised THEN Handled(FALSE, ErrorReply(m.sender), out.subs, out.executed)
    ELSE out

\* the try block of BaseDirectorAI._process_command (130-159)
base_director_command(subs, m, behaviour) ==
    IF (m.action = "start_process" /\ m.task_id # NoTaskId) \/ m.action = "integrate"
    THEN IF behaviour = "raises"
         THEN Handled(TRUE, <<>>, subs, FALSE)
         ELSE Handled(FALSE, ResponseReply(m.sender), subs, FALSE)
    ELSE Handled(FALSE, ErrorReply(m.sender), subs, FALSE)

\* BaseDirectorAI.process_message (113-128): a command goes to
\* _process_command, a status message is logged and answered with [], any
\* other type with an error message
base_director_process_message(subs, m, behaviour) ==
    IF m.type = "command"
    THEN BaseBoundary(base_director_command(subs, m, behaviour), m)
    ELSE IF m.type = "status"
    THEN Handled(FALSE, <<>>, subs, FALSE)
    ELSE Handled(FALSE, ErrorReply(m.sender), subs, FALSE)

\* the try block of BaseWorkerAI._process_command (309-345): execute
\* without task data raises ValueError
base_worker_command(subs, m, behaviour) ==
    IF m.action = "execute"
    THEN IF behaviour \in {"raises", "no_data"}
         THEN Handled(TRUE, <<>>, subs, FALSE)
         ELSE Handled(FALSE, ResponseReply(m.sender), subs, TRUE)
    ELSE IF m.action = "stop" /\ m.task_id # NoTaskId
    THEN IF behaviour = "raises"
         THEN Handled(TRUE, <<>>, subs, FALSE)
         ELSE Handled(FALSE, ResponseReply(m.sender), subs, FALSE)
    ELSE Handled(FALSE, ErrorReply(m.sender), subs, FALSE)

\* BaseWorkerAI.process_message (291-301)
base_worker_process_message(subs, m, behaviour) ==
    IF m.type = "command"
    THEN BaseBoundary(base_worker_command(subs, m, behaviour), m)
    ELSE Handled(FALSE, ErrorReply(m.sender), subs, FALSE)

\* what a base component's process_message returned
ComponentReturned(component, component_type, m, out) ==
    /\ sessSubtasks' = out.subs
    /\ last' = [op |-> "component_message", type |-> m.type, sender |-> m.sender,
                action |-> m.action, task_id |-> m.task_id,
                raised |-> out.raised, msgs |-> out.msgs,
                executed |-> out.executed, before |-> sessSubtasks,
                component |-> component, session_id |-> m.session_id,
                replies |-> create_message(component_type, out.msgs)]
    /\ UNCHANGED <<cpc, hasPlanner, hasWorker>>
    /\ UNCHANGED <<resolverVars, retryVars, directorVars, taskVars, decompVars>>

\* a BaseDirectorAI subclass's process_message(m)
BaseDirectorProcessMessage(m, behaviour) ==
    /\ cpc = "components"
    /\ ComponentReturned("BaseDirectorAI", "director", m,
                         base_director_process_message(sessSubtasks, m, behaviour))

\* a BaseWorkerAI subclass's process_message(m)
BaseWorkerProcessMessage(m, behaviour) ==
    /\ cpc = "components"
    /\ ComponentReturned("BaseWorkerAI", "worker", m,
                         base_worker_process_message(sessSubtasks, m, behaviour))

\* a Session without subtasks, and components derived from BaseDirectorAI
\* and BaseWorkerAI on it
BaseInit ==
    /\ cpc = "components"
    /\ sessSubtasks = <<>>
    /\ hasPlanner = FALSE
    /\ hasWorker = TRUE
    /\ last = NoCall

\* the calls of a base component's process_message: how the abstract method
\* behaves matters only for a command
BaseCalls(actions) ==
    [m : BaseMessages(actions), behaviour : {"returns"}]
    \cup [m : {m \in BaseMessages(actions) : m.type = "command"},
          behaviour : Behaviours]

BaseNext ==
    \/ \E call \in BaseCalls(BaseDirectorActions) :
          BaseDirectorProcessMessage(call.m, call.behaviour)
    \/ \E call \in BaseCalls(BaseWorkerActions) :
          BaseWorkerProcessMessage(call.m, call.behaviour)

MessageNext == \E call \in WorkerCalls : WorkerProcessMessage(call.m, call.run)

\* process_message of WorkerAI, BaseDirectorAI and BaseWorkerAI
ComponentNext == MessageNext \/ BaseNext

\* ------------------------------------------------- Task.update_status
MaxTasks == 2

TaskIds == 1..MaxTasks

\* no Task object is in play
TaskIdle == tasks = <<>>

\* Task(id, title, description) and TaskModel(..): status PENDING,
\* completed_at None
TaskInit ==
    tasks = [id \in TaskIds |-> [status |-> "pending", completed_at |-> FALSE]]

\* Task.update_status (session.py 83-88) and TaskModel.update_status
\* (types.py 220-225): the status is assigned, and completed_at is set when
\* the new status is COMPLETED; nothing resets it
update_status(task, status) ==
    [status |-> status,
     completed_at |-> IF status = "completed" THEN TRUE ELSE task.completed_at]

\* task.update_status(status) on one of the Tasks
TaskUpdateStatus(id, status) ==
    /\ tasks # <<>>
    /\ tasks' = [tasks EXCEPT ![id] = update_status(tasks[id], status)]
    /\ UNCHANGED <<resolverVars, retryVars, commandVars, directorVars, decompVars>>

TaskNext == \E id \in TaskIds, status \in TaskStatuses : TaskUpdateStatus(id, status)

\* --------------------------------------------- TaskDecompositionLoop
\* TaskDecompositionLoop.max_iterations
max_iterations == 5

\* how many apply_feedback calls a behaviour makes at most
MaxFeedback == 5

DecompositionStates ==
    {"initialized", "analyzing", "decomposing", "reviewing", "completed", "failed"}

FeedbackTypes == {"approve", "reject", "modify"}

Terminal(state) == state \in {"completed", "failed"}

DecompIdle ==
    /\ dcState = "none"
    /\ iteration_count = 0
    /\ feedback_history = <<>>
    /\ dcSubtasks = 0
    /\ dcpc = "off"
    /\ runEntry = "none"
    /\ feedbackInRun = FALSE
    /\ dcReturned = "none"

\* TaskDecompositionLoop.__init__
DecompInit ==
    /\ dcState = "initialized"
    /\ iteration_count = 0
    /\ feedback_history = <<>>
    /\ dcSubtasks = 0
    /\ dcpc = "idle"
    /\ runEntry = "none"
    /\ feedbackInRun = FALSE
    /\ dcReturned = "none"

DecompOthersUnchanged ==
    UNCHANGED <<resolverVars, retryVars, commandVars, directorVars, taskVars>>

\* TaskDecompositionLoop.apply_feedback: the state and the iteration count
\* after the call
apply_feedback(state, count, feedback_type) ==
    IF feedback_type = "approve" THEN [state |-> "completed", count |-> count]
    ELSE IF feedback_type = "reject" THEN [state |-> "failed", count |-> count]
    ELSE [state |-> IF count + 1 >= max_iterations THEN "failed" ELSE state,
          count |-> count + 1]

\* a caller applies a feedback, before, during or after run()
ApplyFeedback(feedback_type) ==
    /\ dcpc # "off"
    /\ Len(feedback_history) < MaxFeedback
    /\ feedback_history' = Append(feedback_history, feedback_type)
    /\ LET after == apply_feedback(dcState, iteration_count, feedback_type)
       IN  /\ dcState' = after.state
           /\ iteration_count' = after.count
    /\ feedbackInRun' = (feedbackInRun \/ dcpc # "idle")
    /\ UNCHANGED <<dcSubtasks, dcpc, runEntry, dcReturned>>
    /\ DecompOthersUnchanged

\* run() is called: analyze_task, up to the first test of the while
RunBegin ==
    /\ dcpc = "idle"
    /\ runEntry' = dcState
    /\ dcState' = "analyzing"
    /\ dcpc' = "while"
    /\ feedbackInRun' = FALSE
    /\ dcReturned' = "none"
    /\ UNCHANGED <<iteration_count, feedback_history, dcSubtasks>>
    /\ DecompOthersUnchanged

\* while self.state not in [COMPLETED, FAILED]: the body is entered
WhileEnter ==
    /\ dcpc = "while"
    /\ ~Terminal(dcState)
    /\ dcpc' = "decompose"
    /\ UNCHANGED <<dcState, iteration_count, feedback_history, dcSubtasks,
                   runEntry, feedbackInRun, dcReturned>>
    /\ DecompOthersUnchanged

\* the while is left: return self.state == COMPLETED
RunReturn ==
    /\ dcpc = "while"
    /\ Terminal(dcState)
    /\ dcReturned' = (IF dcState = "completed" THEN "True" ELSE "False")
    /\ dcpc' = "idle"
    /\ UNCHANGED <<dcState, iteration_count, feedback_history, dcSubtasks,
                   runEntry, feedbackInRun>>
    /\ DecompOthersUnchanged

\* self.subtasks = self.decompose_task()
Decompose ==
    /\ dcpc = "decompose"
    /\ dcState' = "decomposing"
    /\ dcSubtasks' = 3
    /\ dcpc' = "review"
    /\ UNCHANGED <<iteration_count, feedback_history, runEntry, feedbackInRun,
                   dcReturned>>
    /\ DecompOthersUnchanged

\* self.state = REVIEWING
EnterReview ==
    /\ dcpc = "review"
    /\ dcState' = "reviewing"
    /\ dcpc' = "limit"
    /\ UNCHANGED <<iteration_count, feedback_history, dcSubtasks, runEntry,
                   feedbackInRun, dcReturned>>
    /\ DecompOthersUnchanged

\* if self.iteration_count >= self.max_iterations: FAILED, return False
CheckLimit ==
    /\ dcpc = "limit"
    /\ IF iteration_count >= max_iterations
       THEN /\ dcState' = "failed"
            /\ dcReturned' = "False"
            /\ dcpc' = "idle"
       ELSE /\ dcpc' = "while"
            /\ UNCHANGED <<dcState, dcReturned>>
    /\ UNCHANGED <<iteration_count, feedback_history, dcSubtasks, runEntry,
                   feedbackInRun>>
    /\ DecompOthersUnchanged

\* the steps of run()
RunStep == WhileEnter \/ RunReturn \/ Decompose \/ EnterReview \/ CheckLimit

DecompositionNext ==
    \/ \E feedback_type \in FeedbackTypes : ApplyFeedback(feedback_type)
    \/ RunBegin
    \/ WhileEnter
    \/ RunReturn
    \/ Decompose
    \/ EnterReview
    \/ CheckLimit

\* ---------------------------------------------------------- specifications
ResolverSpecInit == ResolverInit /\ RetryIdle /\ CommandIdle /\ DirectorIdle /\ TaskIdle /\ DecompIdle

ResolverSpec == ResolverSpecInit /\ [][ResolverNext]_vars

RetrySpecInit == ResolverIdle /\ RetryInit /\ CommandIdle /\ DirectorIdle /\ TaskIdle /\ DecompIdle

RetrySpec == RetrySpecInit /\ [][RetryNext]_vars

CommandSpecInit == ResolverIdle /\ RetryIdle /\ CommandInit /\ DirectorIdle /\ TaskIdle /\ DecompIdle

CommandSpec == CommandSpecInit /\ [][CommandNext]_vars

DirectorSpecInit == ResolverIdle /\ RetryIdle /\ DirectorInit /\ TaskIdle /\ DecompIdle

DirectorSpec == DirectorSpecInit /\ [][DirectorNext]_vars

MessageSpecInit == ResolverIdle /\ RetryIdle /\ MessageInit /\ DirectorIdle /\ TaskIdle /\ DecompIdle

MessageSpec == MessageSpecInit /\ [][MessageNext]_vars

ComponentSpecInit ==
    \/ ResolverIdle /\ RetryIdle /\ MessageInit /\ DirectorIdle /\ TaskIdle /\ DecompIdle
    \/ ResolverIdle /\ RetryIdle /\ BaseInit /\ DirectorIdle /\ TaskIdle /\ DecompIdle

ComponentSpec == ComponentSpecInit /\ [][ComponentNext]_vars

TaskSpecInit == ResolverIdle /\ RetryIdle /\ CommandIdle /\ DirectorIdle /\ TaskInit /\ DecompIdle

TaskSpec == TaskSpecInit /\ [][TaskNext]_vars

\* the three boundaries of a session: its dispatcher, its worker's
\* process_message, its Director's _process_command
BoundarySpecInit ==
    \/ ResolverIdle /\ RetryIdle /\ CommandInit /\ DirectorIdle /\ TaskIdle /\ DecompIdle
    \/ ResolverIdle /\ RetryIdle /\ MessageInit /\ DirectorIdle /\ TaskIdle /\ DecompIdle
    \/ ResolverIdle /\ RetryIdle /\ DirectorInit /\ TaskIdle /\ DecompIdle

BoundaryNext == CommandNext \/ MessageNext \/ DirectorNext

BoundarySpec == BoundarySpecInit /\ [][BoundaryNext]_vars

\* ---- properties of the resolvers
\* every id of the order stands after each of its dependencies that is in it
RespectsDependencies(order, deps) ==
    \A id \in Range(order) : \A d \in Range(GraphGet(deps, id)) :
        d \in Range(order) => IndexOf(order, d) < IndexOf(order, id)

\* C1: for every acyclic dependency map the ordering returned by either
\* resolver places every id after all ids of its dependency set
\* (for {A: [], B: [A], C: [A]}: A before B and before C).
C1_TopologicalValidity ==
    /\ (rpc = "director" /\ ~HasCycle(dependencies))
          => RespectsDependencies(directorOrder.order, dependencies)
    /\ (rpc = "loop" /\ ~HasCycle(dependencies))
          => RespectsDependencies(loopOrder.order, dependencies)

RECURSIVE DoublingSchedule(_)
DoublingSchedule(n) ==
    IF n = 0 THEN <<>>
    ELSE IF n = 1 THEN <<initial_retry_delay>>
    ELSE LET s == DoublingSchedule(n - 1) IN Append(s, 2 * s[n - 1])

AllTransient(call) ==
    \A j \in DOMAIN call.outcomes :
        call.outcomes[j].arun /\ call.outcomes[j].result = "transient"

AllFailed(call) ==
    \A j \in DOMAIN call.outcomes :
        call.outcomes[j].arun /\ call.outcomes[j].result # "ok"

\* C5: when every backend call of one run_query execution fails with a
\* transient error, the execution makes exactly max_retries (3) backend
\* attempts, and waits 2s before the second and 4s before the third.
C5_RetryBound ==
    \A i \in DOMAIN runLog :
        AllTransient(runLog[i]) =>
            /\ ArunCount(runLog[i].outcomes) = max_retries
            /\ runLog[i].sleeps = DoublingSchedule(max_retries - 1)

\* a finished run_query call all of whose backend calls failed transiently
C5_Witness ==
    \E i \in DOMAIN runLog :
        /\ AllTransient(runLog[i])
        /\ runLog[i].result = "error_text_transient"

\* C6: after the retries of a subtask execution are exhausted (the backend
\* failed on every one of the max_retries attempts) the Subtask is FAILED and
\* the worker's result has status FAILED and carries the last backend error.
C6_ExhaustedIsFailed ==
    (/\ wpc = "done"
     /\ runLog # <<>>
     /\ runLog[1].phase = "generate"
     /\ Len(runLog[1].outcomes) = max_retries
     /\ AllFailed(runLog[1]))
        => /\ wStatus = "failed"
           /\ execResult.status = "failed"
           /\ execResult.error = runLog[1].outcomes[max_retries].result

\* C7: when a backend call fails with a permanent error the execution fails
\* at once: that was the only backend call of the execution, no wait was
\* made, and the Subtask becomes FAILED.
C7_PermanentFailsAtOnce ==
    (/\ wpc = "done"
     /\ runLog # <<>>
     /\ runLog[1].phase = "generate"
     /\ runLog[1].outcomes[1].arun
     /\ runLog[1].outcomes[1].result = "permanent")
        => /\ ArunCount(runLog[1].outcomes) = 1
           /\ runLog[1].sleeps = <<>>
           /\ wStatus = "failed"
           /\ execResult.status = "failed"

\* ---- properties of the session and the command dispatcher

\* C4: once a registered subtask has a terminal status (completed, failed,
\* cancelled), no later call changes it: in every step, a subtask that is
\* terminal before the step is still registered with the same status after it.
C4_TerminalIsFinal ==
    [][\A id \in DOMAIN sessSubtasks :
          sessSubtasks[id] \in TerminalStatuses
              => /\ id \in DOMAIN sessSubtasks'
                 /\ sessSubtasks'[id] = sessSubtasks[id]]_vars

UnknownDispatched == last.op = "dispatch" /\ last.ctype \notin command_map

C10_FailureRollsForward ==
    (/\ last.op = "dispatch"
     /\ last.ctype = "execute_task"
     /\ last.setInProgress
     /\ last.status = "failure")
        => last.after = "failed"

\* ---- properties of the Director's process

WorkerInvoked == dpc \in {"execute_task", "reexecute"}

\* the subtasks of the plan that the subtask in hand depends on
PlanDependencies(id) ==
    Range(GraphGet(plan_result.dependencies, id)) \cap Range(plan_result.subtasks)

\* C3: whenever the Director has invoked the worker on a subtask, every
\* subtask of the plan it depends on was executed before and is completed.
C3_DependenciesFirst ==
    WorkerInvoked =>
        \A d \in PlanDependencies(CurrentId) :
            /\ d \in Range(execLog)
            /\ StatusOf(sessSubtasks, d) = "completed"

\* ---- properties of the component boundaries

IsMessageList(msgs) ==
    \A i \in DOMAIN msgs : msgs[i].type \in MessageTypes /\ msgs[i].receiver \in Senders

MainTaskStatus == StatusOf(sessSubtasks, MainTaskId)

\* C11: every change of the main task's status follows the task state
\* diagram: no step takes it from pending straight to executing, and no
\* step takes it from executing straight to completed.
C11_TaskStateDiagram ==
    [][/\ ~(MainTaskStatus = "pending" /\ MainTaskStatus' = "executing")
       /\ ~(MainTaskStatus = "executing" /\ MainTaskStatus' = "completed")]_vars

\* the status of the Task execute_process drives (127-134): the registered
\* subtask with the task's id, else a TaskModel made on the spot, whose
\* status is the default and which no status update reaches
DrivenTaskStatus ==
    IF Registered(sessSubtasks, MainTaskId) THEN sessSubtasks[MainTaskId] ELSE "pending"

\* execute_process ran and has returned or raised
ProcessEnded ==
    /\ dpc = "replied"
    /\ last.op = "director_command"
    /\ last.action = "start_process"
    /\ (last.processRaised \/ last.final.status # "none")

\* C12: when execute_process has ended, the Task it drove is completed or
\* failed and the Session status is completed or failed.
C12_EndsTerminal ==
    ProcessEnded =>
        /\ DrivenTaskStatus \in {"completed", "failed"}
        /\ sessionStatus \in {"completed", "failed"}

\* the ids of the plan in use
PlanIds == Range(plan_result.subtasks)

\* every subtask of the plan has a completed result and an evaluation at or
\* above the threshold, and no evaluation was below it
AllSucceededAndPassed ==
    /\ PlanIds # {}
    /\ \A id \in PlanIds :
          /\ \E i \in DOMAIN execution_results :
                execution_results[i] = [id |-> id, status |-> "completed"]
          /\ \E j \in DOMAIN evalLog : evalLog[j] = [id |-> id, verdict |-> "high"]
    /\ \A i \in DOMAIN execution_results : execution_results[i].status = "completed"
    /\ \A j \in DOMAIN evalLog : evalLog[j].verdict = "high"

\* no id occurs twice in the log of worker invocations
NoReexecution == \A i, j \in DOMAIN execLog : execLog[i] = execLog[j] => i = j

\* C13: when the run has ended and every subtask of the plan executed
\* successfully with an evaluation at or above the threshold, the Task is
\* completed, the FinalResult has status "completed" and no subtask was
\* executed twice.
C13_HappyPathCompletes ==
    (ProcessEnded /\ AllSucceededAndPassed) =>
        /\ DrivenTaskStatus = "completed"
        /\ last.final.status = "completed"
        /\ NoReexecution

\* every subtask of the plan was executed, exactly one of the results is
\* failed and the others are completed
ExactlyOneFailed ==
    /\ Len(execution_results) = Len(plan_result.subtasks)
    /\ failed_count(execution_results) = 1
    /\ successful_count(execution_results) = Len(execution_results) - 1

\* C14: when the run has ended with exactly one subtask failed and the
\* others completed, the Task is failed and the FinalResult reports
\* failed_count = 1.
C14_OneFailureFailsTask ==
    (ProcessEnded /\ ~last.processRaised /\ ExactlyOneFailed) =>
        /\ DrivenTaskStatus = "failed"
        /\ last.final.failed_count = 1

\* the integration inside the run failed: its backend call or the parsing
\* of the answer raised
IntegrationFailed == ProcessEnded /\ last.final.status = "error"

\* C15: when the integration step of a run has failed, the Task ends failed
\* and the caller gets an error, not a response.
C15_FailedIntegrationFailsTask ==
    IntegrationFailed =>
        /\ DrivenTaskStatus = "failed"
        /\ \A i \in DOMAIN last.msgs : last.msgs[i].type = "error"

\* the run is past planning and past the loop over the subtasks
PastExecution == dpc = "integrate" \/ (ProcessEnded /\ ~last.processRaised)

\* C16: every run that gets past planning executes at least one subtask:
\* a plan that is invalid or has no subtasks is replaced by the fallback
\* plan with its single subtask.
C16_AlwaysExecutableWork ==
    PastExecution => /\ plan_result.subtasks # <<>>
                     /\ execLog # <<>>

\* C17: in a run whose plan has a cycle in its dependency map, the Task is
\* never in EXECUTING and no subtask of the plan is executed.
C17_CycleBlocksExecuting ==
    HasCycle(plan_result.dependencies) =>
        /\ DrivenTaskStatus # "executing"
        /\ execLog = <<>>

\* how often the worker was invoked on id in this run
Executions(id) == Cardinality({i \in DOMAIN execLog : execLog[i] = id})

\* the evaluation of id had a score below the threshold and the evaluator
\* returned a non-empty list of improvements for it
LowWithImprovements(id) ==
    \E j \in DOMAIN evalLog : evalLog[j] = [id |-> id, verdict |-> "low_some"]

\* C18: in a run each subtask is executed at most twice, and it is executed
\* a second time exactly when its evaluation was below the threshold and
\* came with a non-empty list of improvements.
C18_SingleBoundedRetry ==
    \A id \in Range(execLog) :
        /\ Executions(id) <= 2
        /\ (Executions(id) = 2 <=> LowWithImprovements(id))

C18_Witness ==
    /\ ProcessEnded
    /\ ~last.processRaised
    /\ \E id \in Range(execLog) : Executions(id) = 2 /\ LowWithImprovements(id)
    /\ \E id \in Range(execLog) : Executions(id) = 1

\* the execution of the subtask at the loop's position has returned: its
\* result is the last of execution_results and its status is terminal
ExecutionReturned ==
    /\ dIdx \in DOMAIN execution_order
    /\ Len(execution_results) = dIdx
    /\ execution_results[dIdx].id = CurrentId
    /\ StatusOf(sessSubtasks, CurrentId) \in {"completed", "failed"}

\* C19: in every run of execute_process the evaluation of a subtask starts
\* only after that subtask's execution has returned, and integration starts
\* only after every subtask of the plan is in a terminal status (completed
\* or failed).
C19_PhasesInOrder ==
    /\ dpc \in {"evaluate_task", "suggest_improvements"} => ExecutionReturned
    /\ dpc = "integrate" =>
           \A id \in PlanIds : /\ Registered(sessSubtasks, id)
                                /\ sessSubtasks[id] \in {"completed", "failed"}

\* integration is awaited for a plan of two subtasks, each evaluated
C19_Witness ==
    /\ dpc = "integrate"
    /\ Cardinality(PlanIds) = 2
    /\ \A id \in PlanIds : \E j \in DOMAIN evalLog : evalLog[j].id = id

\* C20: if the Session is moved to cancelled while execute_process is
\* suspended in a backend call, then once that call returns its result is
\* discarded, no further subtask is executed, and the Session status stays
\* cancelled: it is never overwritten with completed, failed or running.
C20_CancellationObserved ==
    [][sessionStatus = "cancelled" =>
          /\ sessionStatus' = "cancelled"
          /\ execution_results' = execution_results
          /\ execLog' = execLog]_vars

\* the execute_task handler reported a failure for a registered subtask
ExecuteFailureReported ==
    /\ last.op = "dispatch"
    /\ last.ctype = "execute_task"
    /\ last.status = "failure"
    /\ last.before # "absent"

\* C21: whenever an error is reported upward (here: a failure result of the
\* execute_task handler), the subtask concerned already has status failed,
\* so a status query made after the report never sees another status.
C21_FailedBeforeReported ==
    ExecuteFailureReported => last.after = "failed"

\* execute_process returned with the FinalResult of its execution results
FinalResultProduced == ProcessEnded /\ ~last.processRaised

\* C22: the FinalResult of a Task has a status that tells the three outcomes
\* apart: completed when every subtask succeeded, partially_completed when
\* some but not all succeeded, failed when none did.
C22_FinalStatusDistinguishes ==
    FinalResultProduced =>
        LET good == successful_count(execution_results)
            bad == failed_count(execution_results)
        IN  /\ bad = 0 => last.final.status = "completed"
            /\ (good > 0 /\ bad > 0) => last.final.status = "partially_completed"
            /\ good = 0 => last.final.status = "failed"

\* ---- properties of process_message

\* process_message of a component has returned
MessageProcessed == last.op \in {"worker_message", "component_message"}

\* C23: for every message of type command or query, process_message returns
\* at least one message, whatever the action, the content, or the failure
\* inside the handler.
C23_CommandsAndQueriesAnswered ==
    (MessageProcessed /\ last.type \in {"command", "query"}) =>
        ~last.raised /\ Len(last.msgs) >= 1

\* an execute_task command for a registered subtask, whose run raised, was
\* answered with one error message
C23_Witness ==
    /\ MessageProcessed
    /\ last.component = "WorkerAI"
    /\ last.type = "command"
    /\ last.action = "execute_task"
    /\ Registered(last.before, last.task_id)
    /\ Len(last.msgs) = 1
    /\ last.msgs[1].type = "error"

\* C24: for every message whose type is neither command nor query
\* (response, error, status, feedback), process_message returns exactly one
\* message, of type error, whose receiver is the original sender.
C24_OtherTypesGetOneError ==
    (MessageProcessed /\ last.type \notin {"command", "query"}) =>
        /\ Len(last.msgs) = 1
        /\ last.msgs[1].type = "error"
        /\ last.msgs[1].receiver = last.sender

\* C25: every message process_message(m) returns refers to the request: its
\* session_id is m's session_id, its receiver is m's sender, and its sender
\* is the component's own type.
C25_RepliesReferToRequest ==
    MessageProcessed =>
        \A i \in DOMAIN last.replies :
            /\ last.replies[i].session_id = last.session_id
            /\ last.replies[i].receiver = last.sender
            /\ last.replies[i].sender =
                   (IF last.component = "BaseDirectorAI" THEN "director" ELSE "worker")

\* the worker was sent an execute_task command without a task_id, or with
\* one that is not registered in the Session
ExecuteUnknownTask ==
    /\ last.op = "worker_message"
    /\ last.type = "command"
    /\ last.action = "execute_task"
    /\ (last.task_id = NoTaskId \/ ~Registered(last.before, last.task_id))

\* C26: an execute_task command to the worker with a task_id that is not
\* registered in the Session, or with none, yields exactly one error
\* message, does not reach the backend, and leaves every subtask of the
\* Session unchanged.
C26_UnknownTaskRejected ==
    ExecuteUnknownTask =>
        /\ Len(last.msgs) = 1
        /\ last.msgs[1].type = "error"
        /\ ~last.executed
        /\ sessSubtasks = last.before

\* the Session has subtasks, and the command named one it does not have
C26_Witness ==
    /\ ExecuteUnknownTask
    /\ last.task_id # NoTaskId
    /\ last.before # <<>>
    /\ Len(last.msgs) = 1

\* the last call was a plan_task command for the main task
PlanTaskRan == last.op = "dispatch" /\ last.ctype = "plan_task"

\* the last call was a plan_task command that registered a set of subtasks
PlanCreated == PlanTaskRan /\ last.status = "success" /\ last.added # {}

\* C27: running the plan_task command twice for the same pending Task does
\* not create a second set of subtasks: the second call leaves the Session's
\* subtask map as the first left it, whether it re-enters or is rejected.
C27_AtMostOnePlan ==
    [][(PlanCreated /\ PlanTaskRan') => sessSubtasks' = sessSubtasks]_vars

\* C28: once a subtask is registered its id is never removed from the
\* Session's subtask map, and a subtask that reached failed stays
\* retrievable with status failed: no operation erases the failed record.
C28_FailedRecordKept ==
    [][\A id \in DOMAIN sessSubtasks :
          /\ id \in DOMAIN sessSubtasks'
          /\ sessSubtasks[id] = "failed" => sessSubtasks'[id] = "failed"]_vars

\* ---- properties of Task.update_status

\* C29: in every reachable state and for every Task, completed_at is set if
\* and only if the status is completed, after any sequence of update_status
\* calls.
C29_CompletedAtIffCompleted ==
    \A id \in DOMAIN tasks :
        tasks[id].completed_at <=> tasks[id].status = "completed"

\* ---- properties of the Session's mutators

\* the calls that write a subtask through Session.add_subtask or
\* Session.update_task_status: the two mutators, and the command handlers,
\* which call them (commands.py 88, 157, 168, 178, 188)
SessionMutatorCalls == {"add_subtask", "update_task_status", "dispatch"}

\* this step changes the status of a registered subtask
StatusWritten ==
    \E id \in DOMAIN sessSubtasks :
        id \in DOMAIN sessSubtasks' /\ sessSubtasks'[id] # sessSubtasks[id]

\* C30: every change to a registered subtask's status happens inside a
\* Session mutator (add_subtask, update_task_status): no handler or
\* component step (worker execution, director status update, stop request)
\* writes a subtask field directly.
C30_WritesThroughSession ==
    [][StatusWritten => last'.op \in SessionMutatorCalls]_vars

\* ---- properties of the commands' preconditions

\* the command just dispatched found its precondition unmet: plan_task
\* without a planner, execute_task without a worker or for an id that is
\* not registered
PreconditionFailed ==
    /\ last'.op = "dispatch"
    /\ \/ last'.ctype = "plan_task" /\ ~hasPlanner
       \/ last'.ctype = "execute_task" /\ (~hasWorker \/ last'.before = "absent")

\* C31: when a command's precondition fails because the needed component is
\* missing from the Session or the subtask id is not registered, the command
\* returns a failure result, invokes no component, and leaves every
\* subtask's status and the Session status unchanged.
C31_FailedPreconditionNoEffect ==
    [][PreconditionFailed =>
          /\ last'.status = "failure"
          /\ ~last'.called
          /\ sessSubtasks' = sessSubtasks
          /\ sessionStatus' = sessionStatus]_vars

\* execute_task named an id the Session does not have, among subtasks it
\* has, with a worker present
C31_Witness ==
    /\ last.op = "dispatch"
    /\ last.ctype = "execute_task"
    /\ hasWorker
    /\ last.error = "subtask_not_found"
    /\ last.status = "failure"
    /\ sessSubtasks # <<>>

\* ---- properties of the worker on top of run_query

\* the run_query call of the generation phase failed with a transient error
\* on its first k attempts, k < max_retries, and succeeded on attempt k + 1
RecoveredGeneration ==
    /\ runLog # <<>>
    /\ runLog[1].phase = "generate"
    /\ LET os == runLog[1].outcomes
       IN  /\ Len(os) \in 2..max_retries
           /\ os[Len(os)].result = "ok"
           /\ \A j \in 1..(Len(os) - 1) : os[j].result = "transient"

\* C32: if the backend fails with a transient error on its first k attempts,
\* k < max_retries, and succeeds on attempt k + 1, the execution result has
\* status completed, carries the successful output, and the subtask is
\* completed.
C32_RecoversWithinRetries ==
    (wpc = "done" /\ RecoveredGeneration) =>
        /\ execResult.status = "completed"
        /\ execResult.content = runLog[1].result
        /\ wStatus = "completed"

\* two transient errors, then success on the third attempt
C32_Witness ==
    /\ wpc = "done"
    /\ RecoveredGeneration
    /\ Len(runLog[1].outcomes) = max_retries
    /\ runLog[1].sleeps = <<initial_retry_delay, 2 * initial_retry_delay>>
    /\ execResult.status = "completed"

\* ---- further properties of the resolvers

\* C33: for every cyclic dependency map, the cycle error raised by
\* _determine_execution_order names a subtask id that lies on a dependency
\* cycle.
C33_CycleErrorNamesCycleMember ==
    (rpc = "director" /\ directorOrder.raised) =>
        directorOrder.node \in DependsOnTransitively(dependencies, directorOrder.node)

\* the resolver raised on a map in which the first subtask visited leads
\* into a cycle of two other subtasks without lying on it
C33_Witness ==
    /\ rpc = "director"
    /\ directorOrder.raised
    /\ Len(subtasks) = 3
    /\ subtasks[1] \notin DependsOnTransitively(dependencies, subtasks[1])
    /\ \E a \in Range(dependencies[subtasks[1]]) :
          a \in DependsOnTransitively(dependencies, a)

\* the backend generation of this execution succeeded: the run_query call
\* of the generation phase ended with an answer of the backend
GenerationSucceeded ==
    /\ runLog # <<>>
    /\ runLog[1].phase = "generate"
    /\ runLog[1].outcomes[Len(runLog[1].outcomes)].result = "ok"

\* what the requirement check of this execution returned: the requirements
\* its answer names, none when it failed or was not made
CheckOutcome ==
    IF Len(runLog) >= 2 THEN requirements_met(runLog[2].result) ELSE "none"

\* C34: unmet requirements never make a subtask execution fail: whenever
\* the backend generation succeeds the worker's result is completed,
\* whatever the requirement check returns (none met, some met, or the check
\* failing), and the outcome of the check is recorded in the result.
C34_UnmetRequirementsDoNotFail ==
    (wpc = "done" /\ GenerationSucceeded) =>
        /\ execResult.status = "completed"
        /\ wStatus = "completed"
        /\ execResult.requirements_met = CheckOutcome

\* a check that found only some requirements met, after a generation that
\* succeeded; the result is completed and records it
C34_Witness ==
    /\ wpc = "done"
    /\ GenerationSucceeded
    /\ hasRequirements
    /\ Len(runLog) = 2
    /\ CheckOutcome = "some"
    /\ execResult.status = "completed"
    /\ execResult.requirements_met = "some"

\* C35: for every acyclic input with unique subtask ids the list returned
\* by _determine_execution_order is a permutation of the input subtasks:
\* each appears exactly once and nothing else appears, also when the
\* dependency map mentions ids that are not in the subtask list.
C35_OrderIsPermutation ==
    (rpc = "director" /\ ~HasCycle(dependencies)) =>
        /\ ~directorOrder.raised
        /\ Len(directorOrder.order) = Len(subtasks)
        /\ Range(directorOrder.order) = Range(subtasks)

\* an order was returned for subtasks one of which depends on an id that is
\* no subtask
C35_Witness ==
    /\ rpc = "director"
    /\ ~directorOrder.raised
    /\ Len(subtasks) >= 2
    /\ Len(directorOrder.order) = Len(subtasks)
    /\ \E id \in DOMAIN dependencies :
          Range(dependencies[id]) \ Range(subtasks) # {}

\* TaskExecutionLoop.run has returned
LoopRan == rpc = "ran"

\* C36: TaskExecutionLoop.run returns True and ends in state COMPLETED only
\* if every subtask of the loop has an execution result: no subtask is
\* skipped in a run that reports COMPLETED.
C36_CompletedMeansAllExecuted ==
    (LoopRan /\ loopRun.state = "completed" /\ loopRun.returned = "True") =>
        Range(subtasks) \subseteq DOMAIN loopRun.execution_results

DecompositionSpecInit ==
    ResolverIdle /\ RetryIdle /\ CommandIdle /\ DirectorIdle /\ TaskIdle /\ DecompInit

DecompositionSpec == DecompositionSpecInit /\ [][DecompositionNext]_vars

\* a run() that was called keeps executing its statements
DecompositionFairSpec == DecompositionSpec /\ WF_vars(RunStep)

\* ---- properties of TaskDecompositionLoop
\* C37: TaskDecompositionLoop.run terminates: called in the INITIALIZED
\* state, and with no apply_feedback call while it runs, the loop reaches
\* COMPLETED or FAILED after finitely many decompose/review iterations.
C37_RunTerminates ==
    (dcpc = "while" /\ runEntry = "initialized")
        ~> (Terminal(dcState) \/ feedbackInRun)

\* C38: COMPLETED and FAILED are absorbing: once the loop state is COMPLETED
\* or FAILED, no later apply_feedback call changes the state.
C38_TerminalStatesAbsorbing ==
    [][(Terminal(dcState) /\ Len(feedback_history') > Len(feedback_history))
          => dcState' = dcState]_vars

\* ---- properties of the integration result
\* integrate_results has returned a result to _process_command
IntegrationResultReturned ==
    last.op = "director_command" /\ last.final.status # "none"

\* C39: in every result returned by integrate_results, successful_count +
\* failed_count equals total_results, which equals the number of execution
\* results passed in, also when the integration backend call fails.
C39_CountsAddUp ==
    IntegrationResultReturned =>
        /\ last.final.successful_count + last.final.failed_count
              = last.final.total_results
        /\ last.action = "start_process"
              => last.final.total_results = Len(execution_results)

\* ---- properties of the subtask statuses
\* the subtasks the Director registered from the plan
PlanSubtaskIds == DOMAIN sessSubtasks \ {MainTaskId}

\* C40: in every reachable state the status of every subtask registered in
\* a Session is one of the SubtaskStatus values, after any sequence of
\* execute, stop, review and command operations.
C40_StatusIsSubtaskStatus ==
    \A id \in PlanSubtaskIds : sessSubtasks[id] \in SubtaskStatuses

====
